---- MODULE Spec2Model ----
(***************************************************************************)
(* Time-locked Miracle Decay (src/src/miracle_decay.py): the state machine *)
(* of MiracleDecayManager, driven by a caller that owns one integrals      *)
(* array and calls attempt_miracle, tick and reset in any order.           *)
(*                                                                         *)
(* Further specifications model AnomalyTracker (SpecTracker), the facade   *)
(* AnomalyTrackerV2 (SpecFacade), the manager under any configuration the  *)
(* constructor accepts (SpecAnyConfig) and the dual-route detector of      *)
(* src/core/qualia_arc_core.py (SpecCore).                                 *)
(*                                                                         *)
(* Reals are fixed-point: scores, rates, theta_cancel and rho are counted  *)
(* in hundredths (0.7 is 70, 0.05 is 5, rho = 0.3 is 30); a vector times   *)
(* (1 - rho) is therefore a vector counted in hundredths.                  *)
(***************************************************************************)
EXTENDS Integers, Sequences, FiniteSets, TLC

\* ---------------------------------------------------------------- bounds
MaxK == 3          \* k_max ranges over 1..MaxK
MaxHist == 1       \* the caller stops ticking a pending cycle at this history length
ExtraTicks == 1    \* tick calls observed after the k_max-th one of a cycle
MaxUpdates == 5    \* update_anomaly calls in one run of the tracker
MaxFacadeUpdates == 2  \* update_anomaly calls in one run of the facade
MaxLog == 6        \* records the detector may log in one run

\* ------------------------------------------------------ program constants
VecDim == 4
ThetaCancelDefault == 5
KappaDefault == 50
ConsistencyMin == 70
BaseVec == <<180, 260, 310, 190>>
KMaxDefault == 5
RhoDefault == 30
ThetaRaw == 429
ThetaAnom == 200

NONE == "none"
PENDING == "pending"
CONFIRMED == "confirmed"
CANCELLED == "cancelled"
HIJACK_DETECTED == "hijack"
MiraclePhase == {NONE, PENDING, CONFIRMED, CANCELLED, HIJACK_DETECTED}

\* ----------------------------------------------------------------- inputs
KMaxSet == 1..MaxK
RhoSet == {0, 30}
Vecs == {[i \in 1..VecDim |-> 0], BaseVec}
Rates == {-1, ThetaCancelDefault, ThetaCancelDefault + 3}
GValues == {85, 86}
GMins == {85}
VValues == {ConsistencyMin, 90}

VARIABLES
    k_max, theta_cancel, rho, kappa,      \* configuration (__init__)
    phase, turns_elapsed,                 \* self.state
    initial_integrals, decay_log,
    aliased,                              \* initial_integrals is the caller's array object
    history,                              \* self.history
    caller_vec,                           \* contents of the caller's integrals array
    call, ret,                            \* the last call and what it returned
    admitted, obs, confirmed_out,         \* observers of the current cycle
    tau, g0, alpha, a_anom,               \* AnomalyTracker / AnomalyTrackerV2
    dists, g_out,                         \* observers of the tracker
    log_records                           \* QualiaArcCore: what logging has emitted

config == <<k_max, theta_cancel, rho, kappa>>
state == <<phase, turns_elapsed, initial_integrals, decay_log, aliased>>
observers == <<admitted, obs, confirmed_out>>
tracker == <<tau, g0, alpha, a_anom, dists, g_out>>
vars == <<config, state, history, caller_vec, call, ret, observers,
          tracker, log_records>>

\* ---------------------------------------------------------------- helpers
Zeros == [i \in 1..VecDim |-> 0]

\* variant: the baseline is the caller's own array, not a copy
CopyAliasesShared == TRUE

\* integrals.copy(): a fresh array object with the same contents
CopyAliases == FALSE

\* variant: the reduction is taken from the vector passed to tick
ConfirmedIntegralsOfCurrent(initial, r) ==
    [i \in 1..Len(caller_vec) |-> caller_vec[i] * (100 - r)]

\* initial_integrals * (1 - rho), in hundredths
ConfirmedIntegrals(initial, r) == [i \in 1..Len(initial) |-> initial[i] * (100 - r)]

\* variant: the already-pending guard is missing
BlocksNewAttemptMissing(p) == FALSE

\* if self.state.phase == MiraclePhase.PENDING: return already_pending
BlocksNewAttempt(p) == p = PENDING

\* variant: the evidence comparison is not strict
AdmitsNonStrict(g_value, g_min, v_consistency) ==
    g_value >= g_min /\ v_consistency > ConsistencyMin

\* variant: either condition suffices
AdmitsEither(g_value, g_min, v_consistency) ==
    g_value > g_min \/ v_consistency > ConsistencyMin

\* if g_value > g_min and v_consistency > 0.7
Admits(g_value, g_min, v_consistency) ==
    g_value > g_min /\ v_consistency > ConsistencyMin

\* variant: tick only stands still in Idle
TickActiveUnlessIdle(p) == p # NONE

\* variant: tick only stands still in Idle and Confirmed
TickActiveUnlessDone(p) == p \notin {NONE, CONFIRMED}

\* if self.state.phase != MiraclePhase.PENDING: return action none
TickActive(p) == p = PENDING

\* variant: the comparison is the wrong way round
IsRecurrenceSwapped(d_dot, theta) == d_dot < theta

\* if d_dot > self.theta_cancel
IsRecurrence(d_dot, theta) == d_dot > theta

\* variant: the completion test comes first, so the last tick of the window
\* never rolls back
RollbackBranchAfterCompletion(d_dot, theta, turns, k) ==
    ~(turns >= k) /\ IsRecurrence(d_dot, theta)

\* the recurrence test (line 166) is made, and returns, before the completion
\* test (line 213) is reached
RollbackBranch(d_dot, theta, turns, k) == IsRecurrence(d_dot, theta)

\* variant: the early half excludes its last turn
IsHijackStrict(turns, k) == turns < k \div 2

\* is_hijack = self.state.turns_elapsed <= self.k_max // 2
IsHijack(turns, k) == turns <= k \div 2

\* variant: the window closes one tick late
WindowCompleteLate(turns, k) == turns > k

\* variant: the window closes one tick early
WindowCompleteEarly(turns, k) == turns >= k - 1

\* if self.state.turns_elapsed >= self.k_max
WindowComplete(turns, k) == turns >= k

\* variant: the record is built with the turn count before the increment
CancelEntryStaleTurn(turns, d_dot, theta, is_hijack) ==
    [event |-> "cancelled", turn |-> turns - 1, d_dot |-> d_dot,
     theta_cancel |-> theta, hijack_suspected |-> is_hijack,
     integrals_unchanged |-> TRUE]

\* log_entry of the rollback branch
CancelEntry(turns, d_dot, theta, is_hijack) ==
    [event |-> "cancelled", turn |-> turns, d_dot |-> d_dot,
     theta_cancel |-> theta, hijack_suspected |-> is_hijack,
     integrals_unchanged |-> TRUE]

\* decay_factor = exp(-kappa * k) is kept symbolic: the exponent kappa * k
TickEntry(turns, d_dot, kap, initial) ==
    [event |-> "tick", turn |-> turns, d_dot |-> d_dot,
     decay_exponent |-> kap * turns,
     projected_integrals |-> [base |-> initial, exponent |-> kap * turns]]

ConfirmedEntry(initial, r) ==
    [event |-> "confirmed", integrals_before |-> initial,
     integrals_after |-> ConfirmedIntegrals(initial, r), rho |-> r]

\* variant: the remaining turns are counted from the turn before
TurnsRemainingStale(k, turns) == k - (turns - 1)

\* "turns_remaining": self.k_max - self.state.turns_elapsed  (monitoring)
TurnsRemaining(k, turns) == k - turns

\* variant: the monitoring record is appended to the history as well
HistoryAfterMonitoringLogged(h, log_entry) == Append(h, log_entry)

\* the "tick" log_entry goes to self.state.decay_log only (line 210)
HistoryAfterMonitoring(h, log_entry) == h

\* variant: reset also clears the audit trail
HistoryAfterResetCleared(h) == <<>>

\* reset() replaces self.state only; self.history is the same list afterwards
HistoryAfterReset(h) == h

\* variant: tick applies the confirmed reset to the caller's array in place
IntegralsAfterTickApplied(integrals, result) ==
    IF "new_integrals" \in DOMAIN result THEN result.new_integrals
    ELSE integrals

\* tick never assigns to its integrals argument or to an element of it: the
\* projected and confirmed vectors are new arrays (initial_integrals * factor)
IntegralsAfterTick(integrals, result) == integrals

NoCycle == [active |-> FALSE, from |-> NONE, vec |-> Zeros]

\* ------------------------------------------------------------------- Init
\* self.state = MiracleDecayState(); self.history = []
FreshManager ==
    /\ phase = NONE
    /\ turns_elapsed = 0
    /\ initial_integrals = Zeros
    /\ decay_log = <<>>
    /\ aliased = FALSE
    /\ history = <<>>
    /\ admitted = NoCycle
    /\ obs = <<>>
    /\ confirmed_out = <<>>

\* AnomalyTracker(): tau = 0.2, g0 = 0.4, alpha = 1.0, a_anom = 0.0
DefaultTracker ==
    /\ tau = [num |-> 1, den |-> 5]
    /\ g0 = [num |-> 2, den |-> 5]
    /\ alpha = 10
    /\ a_anom = [num |-> 0, den |-> 1]
    /\ dists = <<>>
    /\ g_out = <<>>

Init ==
    /\ k_max \in KMaxSet
    /\ theta_cancel = ThetaCancelDefault
    /\ rho \in RhoSet
    /\ kappa = KappaDefault
    /\ DefaultTracker
    /\ log_records = <<>>
    /\ FreshManager
    /\ caller_vec \in Vecs
    /\ call = [name |-> "init"]
    /\ ret = [returns |-> "None"]

\* ---------------------------------------------------------------- actions
attempt_miracle(g_value, g_min, v_consistency) ==
    /\ call' = [name |-> "attempt_miracle", integrals |-> caller_vec,
                g_value |-> g_value, g_min |-> g_min,
                v_consistency |-> v_consistency]
    /\ IF BlocksNewAttempt(phase)
       THEN /\ ret' = [result |-> "already_pending",
                       turns_remaining |-> k_max - turns_elapsed]
            /\ UNCHANGED <<state, observers>>
       ELSE IF Admits(g_value, g_min, v_consistency)
       THEN /\ phase' = PENDING
            /\ turns_elapsed' = 0
            /\ initial_integrals' = caller_vec
            /\ aliased' = CopyAliases
            /\ decay_log' = <<>>
            /\ ret' = [result |-> "pending", g_value |-> g_value,
                       g_min |-> g_min, k_max |-> k_max]
            /\ admitted' = [active |-> TRUE, from |-> phase, vec |-> caller_vec]
            /\ obs' = <<>>
            /\ confirmed_out' = <<>>
       ELSE /\ ret' = [result |-> "rejected", g_value |-> g_value,
                       g_min |-> g_min, v_consistency |-> v_consistency]
            /\ UNCHANGED <<state, observers>>
    /\ UNCHANGED <<config, history, caller_vec, tracker, log_records>>

tick(d_dot) ==
    /\ admitted.active => Len(obs) < k_max + ExtraTicks
    /\ phase = PENDING => Len(history) < MaxHist
    /\ call' = [name |-> "tick", integrals |-> caller_vec, d_dot |-> d_dot]
    /\ obs' = IF admitted.active THEN Append(obs, d_dot) ELSE obs
    /\ IF ~TickActive(phase)
       THEN /\ ret' = [phase |-> phase, action |-> "none"]
            /\ UNCHANGED <<state, history, confirmed_out>>
       ELSE LET k == turns_elapsed + 1 IN
            /\ turns_elapsed' = k
            /\ IF RollbackBranch(d_dot, theta_cancel, k, k_max)
               THEN LET is_hijack == IsHijack(k, k_max)
                        log_entry == CancelEntry(k, d_dot, theta_cancel, is_hijack)
                    IN /\ phase' = IF is_hijack THEN HIJACK_DETECTED ELSE CANCELLED
                       /\ decay_log' = Append(decay_log, log_entry)
                       /\ history' = Append(history, log_entry)
                       /\ ret' = [phase |-> phase', action |-> "rollback",
                                  hijack_suspected |-> is_hijack]
                       /\ UNCHANGED confirmed_out
               ELSE /\ decay_log' = Append(decay_log,
                            TickEntry(k, d_dot, kappa, initial_integrals))
                    /\ IF WindowComplete(k, k_max)
                       THEN LET confirmed_integrals ==
                                    ConfirmedIntegrals(initial_integrals, rho)
                            IN /\ phase' = CONFIRMED
                               /\ history' = Append(history,
                                        ConfirmedEntry(initial_integrals, rho))
                               /\ ret' = [phase |-> "confirmed",
                                          action |-> "apply_reset",
                                          new_integrals |-> confirmed_integrals,
                                          integrals_before |-> initial_integrals,
                                          integrals_after |-> confirmed_integrals]
                               /\ confirmed_out' =
                                        Append(confirmed_out, confirmed_integrals)
                       ELSE /\ phase' = PENDING
                            /\ ret' = [phase |-> "pending", action |-> "monitoring",
                                       turns_remaining |-> TurnsRemaining(k_max, k),
                                       decay_exponent |-> kappa * k]
                            /\ history' = HistoryAfterMonitoring(history,
                                    TickEntry(k, d_dot, kappa, initial_integrals))
                            /\ UNCHANGED confirmed_out
            /\ UNCHANGED <<initial_integrals, aliased>>
    /\ caller_vec' = IntegralsAfterTick(caller_vec, ret')
    /\ UNCHANGED <<config, admitted, tracker, log_records>>

\* variant: reset only puts the phase back
resetPhaseOnly ==
    /\ call' = [name |-> "reset"]
    /\ ret' = [returns |-> "None"]
    /\ phase' = NONE
    /\ admitted' = NoCycle
    /\ obs' = <<>>
    /\ confirmed_out' = <<>>
    /\ UNCHANGED <<config, turns_elapsed, initial_integrals, decay_log, aliased,
                   history, caller_vec, tracker, log_records>>

reset ==
    /\ call' = [name |-> "reset"]
    /\ ret' = [returns |-> "None"]
    /\ phase' = NONE
    /\ turns_elapsed' = 0
    /\ initial_integrals' = Zeros
    /\ decay_log' = <<>>
    /\ aliased' = FALSE
    /\ admitted' = NoCycle
    /\ obs' = <<>>
    /\ confirmed_out' = <<>>
    /\ history' = HistoryAfterReset(history)
    /\ UNCHANGED <<config, caller_vec, tracker, log_records>>

\* the caller overwrites its own array in place between calls
CallerWrite(w) ==
    /\ w # caller_vec
    /\ caller_vec' = w
    /\ initial_integrals' = IF aliased THEN w ELSE initial_integrals
    /\ call' = [name |-> "caller_write"]
    /\ ret' = [returns |-> "None"]
    /\ UNCHANGED <<config, phase, turns_elapsed, decay_log, aliased,
                   history, observers, tracker, log_records>>

Next ==
    \/ \E g \in GValues, m \in GMins, v \in VValues : attempt_miracle(g, m, v)
    \/ \E d \in Rates : tick(d)
    \/ reset
    \/ \E w \in Vecs : CallerWrite(w)

Spec == Init /\ [][Next]_vars

\* ---------------------------------------------------------- the tracker
\* Vectors and distances of the tracker are counted in tenths, and so are
\* a_anom and alpha; tau, g0, a_anom and g_min are exact fractions
\* [num, den], never rounded.
TauSet == {[num |-> 1, den |-> 5], [num |-> 1, den |-> 2]}
G0Set == {[num |-> 2, den |-> 5], [num |-> 0, den |-> 1]}
AlphaSet == {10, 5}
ObsVecs == {<<1, 1, 1, 1>>, <<5, 5, 5, 5>>}
PredVecs == {<<8, 8, 8, 8>>, <<5, 5, 5, 5>>}

RECURSIVE SumSq(_)
SumSq(v) == IF v = <<>> THEN 0 ELSE Head(v) * Head(v) + SumSq(Tail(v))

RECURSIVE SumAbs(_)
SumAbs(v) ==
    IF v = <<>> THEN 0
    ELSE (IF Head(v) < 0 THEN -Head(v) ELSE Head(v)) + SumAbs(Tail(v))

\* np.linalg.norm(d_obs - d_hat), for differences whose norm is a whole number
Distance(d_obs, d_hat) ==
    LET diff == [i \in 1..Len(d_obs) |-> d_obs[i] - d_hat[i]]
        sq == SumSq(diff)
    IN CHOOSE r \in 0..SumAbs(diff) : r * r = sq

\* variant: the weights tau and 1 - tau are exchanged
LeakySwapped(a, t, distance) ==
    [num |-> t.num * a.num + (t.den - t.num) * distance * a.den,
     den |-> t.den * a.den]

\* variant: the distance is subtracted
LeakySigned(a, t, distance) ==
    [num |-> (t.den - t.num) * a.num - t.num * distance * a.den,
     den |-> t.den * a.den]

\* (1 - self.tau) * self.a_anom + self.tau * distance
Leaky(a, t, distance) ==
    [num |-> (t.den - t.num) * a.num + t.num * distance * a.den,
     den |-> t.den * a.den]

\* variant: the fraction is not scaled by 1 - g0
GMinUnscaled(a, g, al) ==
    LET total == a.num + al * a.den
    IN [num |-> g.num * total + g.den * a.num, den |-> g.den * total]

\* fraction = a_anom / (a_anom + alpha); g_min = g0 + (1 - g0) * fraction
GMin(a, g, al) ==
    LET total == a.num + al * a.den
    IN [num |-> g.num * total + (g.den - g.num) * a.num, den |-> g.den * total]

update_anomaly(d_obs, d_hat_history) ==
    /\ Len(dists) < MaxUpdates
    /\ LET distance == Distance(d_obs, d_hat_history) IN
        /\ a_anom' = Leaky(a_anom, tau, distance)
        /\ dists' = Append(dists, distance)
    /\ call' = [name |-> "update_anomaly", d_obs |-> d_obs,
                d_hat_history |-> d_hat_history]
    /\ ret' = [value |-> a_anom']
    /\ UNCHANGED <<config, state, history, caller_vec, observers,
                   tau, g0, alpha, g_out, log_records>>

calculate_g_min ==
    /\ g_out' = [a |-> a_anom, g |-> GMin(a_anom, g0, alpha)]
    /\ call' = [name |-> "calculate_g_min"]
    /\ ret' = [value |-> g_out'.g]
    /\ UNCHANGED <<config, state, history, caller_vec, observers,
                   tau, g0, alpha, a_anom, dists, log_records>>

InitTracker ==
    /\ tau \in TauSet
    /\ g0 \in G0Set
    /\ alpha \in AlphaSet
    /\ a_anom = [num |-> 0, den |-> 1]
    /\ dists = <<>>
    /\ g_out = <<>>
    /\ k_max = KMaxDefault
    /\ theta_cancel = ThetaCancelDefault
    /\ rho = RhoDefault
    /\ kappa = KappaDefault
    /\ log_records = <<>>
    /\ FreshManager
    /\ caller_vec = BaseVec
    /\ call = [name |-> "init"]
    /\ ret = [returns |-> "None"]

NextTracker ==
    \/ \E o \in ObsVecs, p \in PredVecs : update_anomaly(o, p)
    \/ calculate_g_min

SpecTracker == InitTracker /\ [][NextTracker]_vars

\* ----------------------------------------------------------- the facade
\* AnomalyTrackerV2: the tracker and a MiracleDecayManager in one object.
FacadeKMaxSet == {2}
FacadeGValues == {40, 45, 86}

\* g_min in whole hundredths, rounded down. g_value is a whole number of
\* hundredths, so g_value > g_min and g_value > (g_min rounded down) agree.
Hundredths(g) == (100 * g.num) \div g.den

facade_update(d_obs) ==
    /\ Len(dists) < MaxFacadeUpdates
    /\ update_anomaly(d_obs, <<5, 5, 5, 5>>)

\* variant: the threshold is the base g0, whatever a_anom is
facade_attempt_miracleBase(g_value, v_consistency) ==
    attempt_miracle(g_value, Hundredths(g0), v_consistency)

\* g_min = self.calculate_g_min(); self.miracle_manager.attempt_miracle(...)
facade_attempt_miracle(g_value, v_consistency) ==
    attempt_miracle(g_value, Hundredths(GMin(a_anom, g0, alpha)), v_consistency)

\* self.miracle_manager.tick(integrals=np.array(integrals), d_dot=d_dot)
facade_tick(d_dot) == tick(d_dot)

InitFacade ==
    /\ DefaultTracker
    /\ k_max \in FacadeKMaxSet
    /\ theta_cancel = ThetaCancelDefault
    /\ rho = RhoDefault
    /\ kappa = KappaDefault
    /\ log_records = <<>>
    /\ FreshManager
    /\ caller_vec = BaseVec
    /\ call = [name |-> "init"]
    /\ ret = [returns |-> "None"]

NextFacade ==
    \/ \E o \in ObsVecs : facade_update(o)
    \/ calculate_g_min
    \/ \E g \in FacadeGValues, v \in VValues : facade_attempt_miracle(g, v)
    \/ \E d \in Rates : facade_tick(d)
    \/ reset

SpecFacade == InitFacade /\ [][NextFacade]_vars

\* ------------------------------------------------- the dual-route detector
\* QualiaArcCore.dual_route_anomaly_detector, residuals in hundredths.
\* theta_raw = sqrt(chi2.ppf(0.999, 4)) = 4.2973...; a norm that is a whole
\* number of hundredths exceeds it exactly when it exceeds 4.29 (ThetaRaw).
Residuals ==
    {<<150, 0, 0, 0>>, <<200, 0, 0, 0>>, <<0, 201, 0, 0>>, <<0, 0, 429, 0>>,
     <<0, 0, 0, 430>>, <<215, 215, 215, 215>>, <<300, 400, 0, 0>>}

\* variant: the slow test is made first
RouteSlowFirst(mahalanobis_dist) ==
    IF mahalanobis_dist > ThetaAnom THEN "slow"
    ELSE IF mahalanobis_dist > ThetaRaw THEN "fast"
    ELSE "normal"

\* if mahalanobis_dist > self.theta_raw ... elif mahalanobis_dist > self.theta_anom
Route(mahalanobis_dist) ==
    IF mahalanobis_dist > ThetaRaw THEN "fast"
    ELSE IF mahalanobis_dist > ThetaAnom THEN "slow"
    ELSE "normal"

FastRecord == [level |-> "CRITICAL", path |-> "Fast Path Anomaly Detected"]
SlowRecord == [level |-> "WARNING", path |-> "Slow Path Anomaly Detected"]
InitRecord == [level |-> "INFO", path |-> "Initialized"]

dual_route_anomaly_detector(residual_vector) ==
    /\ Len(log_records) < MaxLog
    /\ LET mahalanobis_dist == Distance(residual_vector, <<0, 0, 0, 0>>)
           route == Route(mahalanobis_dist)
       IN /\ log_records' =
                IF route = "fast" THEN Append(log_records, FastRecord)
                ELSE IF route = "slow" THEN Append(log_records, SlowRecord)
                ELSE log_records
          /\ ret' = [value |-> route # "normal"]
    /\ call' = [name |-> "dual_route_anomaly_detector",
                residual_vector |-> residual_vector]
    /\ UNCHANGED <<config, state, history, caller_vec, observers, tracker>>

InitCore ==
    /\ log_records = <<InitRecord>>
    /\ DefaultTracker
    /\ k_max = KMaxDefault
    /\ theta_cancel = ThetaCancelDefault
    /\ rho = RhoDefault
    /\ kappa = KappaDefault
    /\ FreshManager
    /\ caller_vec = BaseVec
    /\ call = [name |-> "init"]
    /\ ret = [returns |-> "None"]

NextCore == \E r \in Residuals : dual_route_anomaly_detector(r)

SpecCore == InitCore /\ [][NextCore]_vars

\* ---------------------------------------------------- the reignition gate
\* reignition_decision of src/src/reignition_protocol_v2.py, a function of
\* its arguments. Fatigue integrals, trauma_active and g_rel are counted in
\* tenths, a_anom in hundredths, proposed_delta_p and actual_delta_p in units
\* of 1e-5, the factors V and R in units of 1e-6, and everything the code
\* rounds to four decimals in units of 1e-4.
DELTA_P_BASE == 50      \* hundredths
LAMBDA_I == 15          \* hundredths
LAMBDA_T == 200         \* hundredths
DELTA_R == 30           \* hundredths
ETA_R == 30             \* tenths
VMin == 100             \* np.clip(v, 1e-4, 1.0), in units of 1e-6
VMax == 1000000
ThetaAnomDefault == 200 \* theta_anom: float = 2.0
BlockBelow == 500       \* delta_p_max < 0.05
CaseBMin == 30000       \* actual_delta_p >= 0.3
CaseBTrust == 11000     \* cap["R"] > 1.1

FatigueSet == {<<0, 0, 0, 0>>, <<5, 3, 4, 2>>, <<80, 60, 90, 50>>}
TraumaSet == {0, 8}
GRelSet == {0, 5, 9}
ProposedSet == {50000, 30000, 29996, 12346, 1, 0}
AAnomSet == {50, 200, 250}

RECURSIVE SumOf(_)
SumOf(v) == IF v = <<>> THEN 0 ELSE Head(v) + SumOf(Tail(v))

\* np.exp(-x / 4000) to six decimals, at the arguments the inputs produce
ExpNeg(x) ==
    CASE x = 0 -> 1000000
      [] x = 210 -> 948854
      [] x = 4200 -> 349938
      [] x = 6400 -> 201897
      [] x = 6610 -> 191570
      [] x = 10600 -> 70651

\* np.tanh(x / 100) to six decimals, at the arguments the inputs produce
Tanh(x) ==
    CASE x = 0 -> 0
      [] x = 150 -> 905148
      [] x = 270 -> 991007

\* i_bar = mean(fatigue_integrals); v = exp(-lambda_I * i_bar - lambda_T *
\* trauma_active), clipped to [1e-4, 1]
vulnerability_factor(fatigue_integrals, trauma_active) ==
    LET v == ExpNeg(LAMBDA_I * SumOf(fatigue_integrals)
                        + 4 * LAMBDA_T * trauma_active)
    IN IF v < VMin THEN VMin ELSE IF v > VMax THEN VMax ELSE v

\* r = 1.0 + delta * np.tanh(eta * g_rel)
relational_factor(g_rel) ==
    1000000 + (DELTA_R * Tanh(ETA_R * g_rel) + 50) \div 100

\* round(x, 4) of a value counted in units of 1e-(4+k), scale = 10^k. A value
\* half way between two results goes to the even one here; in the code it
\* goes where its binary representation lies, so the inputs hold no such value.
Round4(x, scale) ==
    LET q == x \div scale
        twice == 2 * (x % scale)
    IN IF twice < scale THEN q
       ELSE IF twice > scale THEN q + 1
       ELSE IF q % 2 = 0 THEN q ELSE q + 1

\* delta_p_max = delta_p_base * v * r, rounded to four decimals. The product
\* v * r is formed from the thousands and the rest of each factor and kept in
\* units of 1e-9, so that no intermediate value exceeds 32 bits.
dynamic_safety_cap(fatigue_integrals, trauma_active, g_rel) ==
    LET v == vulnerability_factor(fatigue_integrals, trauma_active)
        r == relational_factor(g_rel)
        vr == (v \div 1000) * (r \div 1000) * 1000
                + (v \div 1000) * (r % 1000) + (v % 1000) * (r \div 1000)
                + ((v % 1000) * (r % 1000)) \div 1000
    IN [delta_p_max |-> Round4(vr, 10000000 \div DELTA_P_BASE),
        V |-> Round4(v, 100),
        R |-> Round4(r, 100)]

\* the body of reignition_decision after the cap is computed (lines 151-207)
Decide(cap, proposed_delta_p, a, theta_anom) ==
    LET delta_p_max == cap.delta_p_max
        actual_delta_p == IF proposed_delta_p <= 10 * delta_p_max
                          THEN proposed_delta_p ELSE 10 * delta_p_max
        anomaly_blocked == a > theta_anom
    IN IF delta_p_max < BlockBelow
       THEN [permitted |-> FALSE, delta_p_max |-> delta_p_max,
             selected_delta_p |-> 0, case |-> "BLOCKED", cap_detail |-> cap]
       ELSE IF anomaly_blocked
       THEN [permitted |-> FALSE, delta_p_max |-> delta_p_max,
             selected_delta_p |-> 0, case |-> "ANOMALY_HOLD", cap_detail |-> cap]
       ELSE IF actual_delta_p >= CaseBMin /\ cap.R > CaseBTrust
       THEN [permitted |-> TRUE, delta_p_max |-> delta_p_max,
             selected_delta_p |-> Round4(actual_delta_p, 10),
             case |-> "CASE_B", cap_detail |-> cap]
       ELSE IF actual_delta_p > 0
       THEN [permitted |-> TRUE, delta_p_max |-> delta_p_max,
             selected_delta_p |-> Round4(actual_delta_p, 10),
             case |-> "CASE_A", cap_detail |-> cap]
       ELSE [permitted |-> FALSE, delta_p_max |-> delta_p_max,
             selected_delta_p |-> 0, case |-> "NO_INTERVENTION",
             cap_detail |-> cap]

reignition_decision(fatigue_integrals, trauma_active, g_rel, proposed_delta_p, a) ==
    /\ call' = [name |-> "reignition_decision",
                fatigue_integrals |-> fatigue_integrals,
                trauma_active |-> trauma_active, g_rel |-> g_rel,
                proposed_delta_p |-> proposed_delta_p, a_anom |-> a]
    /\ ret' = Decide(dynamic_safety_cap(fatigue_integrals, trauma_active, g_rel),
                     proposed_delta_p, a, ThetaAnomDefault)
    /\ UNCHANGED <<config, state, history, caller_vec, observers, tracker,
                   log_records>>

InitGate ==
    /\ log_records = <<>>
    /\ DefaultTracker
    /\ k_max = KMaxDefault
    /\ theta_cancel = ThetaCancelDefault
    /\ rho = RhoDefault
    /\ kappa = KappaDefault
    /\ FreshManager
    /\ caller_vec = BaseVec
    /\ call = [name |-> "init"]
    /\ ret = [returns |-> "None"]

NextGate ==
    \E f \in FatigueSet, t \in TraumaSet, g \in GRelSet,
       p \in ProposedSet, a \in AAnomSet : reignition_decision(f, t, g, p, a)

SpecGate == InitGate /\ [][NextGate]_vars

\* ------------------------------------------ any configuration and vector
\* The constructors and attempt_miracle take whatever they are given: no
\* range check on k_max or alpha, no check of the vector's dimension.
KMaxAccepted == 0..MaxK
AlphaAccepted == {0, 10}
VecsAny == Vecs \cup {<<180, 260, 310>>}

InitAnyConfig ==
    /\ k_max \in KMaxAccepted
    /\ theta_cancel = ThetaCancelDefault
    /\ rho \in RhoSet
    /\ kappa = KappaDefault
    /\ tau = [num |-> 1, den |-> 5]
    /\ g0 = [num |-> 2, den |-> 5]
    /\ alpha \in AlphaAccepted
    /\ a_anom = [num |-> 0, den |-> 1]
    /\ dists = <<>>
    /\ g_out = <<>>
    /\ log_records = <<>>
    /\ FreshManager
    /\ caller_vec \in VecsAny
    /\ call = [name |-> "init"]
    /\ ret = [returns |-> "None"]

NextAnyConfig ==
    \/ \E g \in GValues, m \in GMins, v \in VValues : attempt_miracle(g, m, v)
    \/ \E d \in Rates : tick(d)
    \/ reset
    \/ \E w \in VecsAny : CallerWrite(w)

SpecAnyConfig == InitAnyConfig /\ [][NextAnyConfig]_vars

\* ------------------------------------------------------------- properties
MinOf(a, b) == IF a <= b THEN a ELSE b
Scaled(vec, r) == <<vec[1] * (100 - r), vec[2] * (100 - r),
                    vec[3] * (100 - r), vec[4] * (100 - r)>>
\* the first n tick calls of the current cycle all had rate <= theta_cancel
StableUpTo(n) == \A i \in 1..n : obs[i] <= theta_cancel
IsTick == call.name = "tick"
IsAttempt == call.name = "attempt_miracle"

\* C1: in a cycle admitted from Idle whose ticks all have rate <= theta_cancel
\* (equality included), the phase is Pending and nothing has been confirmed
\* before tick number k_max; from tick number k_max on the phase is Confirmed,
\* exactly one Confirmed result has been returned (on tick k_max itself, none
\* on later ticks), and its new_integrals is the admission-time baseline times
\* (1 - rho), elementwise.
C1_WindowCompletion ==
    (admitted.active /\ admitted.from = NONE
        /\ StableUpTo(MinOf(Len(obs), k_max))) =>
        IF Len(obs) < k_max
        THEN phase = PENDING /\ confirmed_out = <<>>
        ELSE /\ phase = CONFIRMED
             /\ confirmed_out = <<Scaled(admitted.vec, rho)>>
             /\ (IsTick /\ Len(obs) = k_max) =>
                    /\ ret.phase = "confirmed"
                    /\ ret.new_integrals = Scaled(admitted.vec, rho)
             /\ (IsTick /\ Len(obs) > k_max) => ret.action = "none"

C1_Witness ==
    /\ admitted.active /\ admitted.from = NONE
    /\ k_max = 3 /\ rho = 30 /\ admitted.vec = BaseVec
    /\ Len(obs) = k_max + 1 /\ StableUpTo(k_max)
    /\ \E i \in 1..k_max : obs[i] = theta_cancel
    /\ phase = CONFIRMED
    /\ confirmed_out = <<(<<12600, 18200, 21700, 13300>>)>>

\* C2: whenever the phase is Confirmed, the current cycle has seen at least
\* k_max ticks and none of its first k_max ticks had rate > theta_cancel; a
\* cycle in which one of the first k_max ticks had rate > theta_cancel is not
\* Confirmed and has returned no Confirmed result, whatever the other rates.
C2_NoPartialCredit ==
    /\ phase = CONFIRMED =>
            /\ admitted.active
            /\ Len(obs) >= k_max
            /\ StableUpTo(k_max)
    /\ (admitted.active
            /\ \E i \in 1..MinOf(Len(obs), k_max) : obs[i] > theta_cancel) =>
            phase # CONFIRMED /\ confirmed_out = <<>>

C2_Witness ==
    /\ admitted.active /\ k_max = 3 /\ Len(obs) = 4
    /\ obs[1] <= theta_cancel /\ obs[2] <= theta_cancel
    /\ obs[3] > theta_cancel /\ obs[4] <= theta_cancel
    /\ phase = CANCELLED /\ confirmed_out = <<>>

\* C3 (as claimed): for every k_max >= 1 the phase is never Confirmed when
\* exactly one tick has been observed since the admission.
C3_Original ==
    ~(admitted.active /\ Len(obs) = 1 /\ phase = CONFIRMED)

\* C3 (amended): for every k_max >= 2 the phase is never Confirmed, and no
\* Confirmed result has been returned, when exactly one tick has been observed
\* since the admission.
C3_NoSingleObservationCommit ==
    (k_max >= 2 /\ admitted.active /\ Len(obs) = 1) =>
        phase # CONFIRMED /\ confirmed_out = <<>>

C3_Witness ==
    /\ k_max = 2 /\ admitted.active /\ Len(obs) = 1
    /\ obs[1] <= theta_cancel /\ IsTick
    /\ phase = PENDING /\ ret.action = "monitoring"

\* C4: a tick taken while Pending with rate > theta_cancel, being the m-th
\* tick of the cycle, sets the phase to HijackSuspected when m <= floor(k_max/2)
\* (that is 2m <= k_max) and to Cancelled otherwise.
C4_EarlyAbortLaw ==
    [][(call'.name = "tick" /\ phase = PENDING
            /\ call'.d_dot > theta_cancel) =>
        LET m == Len(obs') IN
        /\ m \in 1..k_max
        /\ phase' = IF 2 * m <= k_max THEN HIJACK_DETECTED ELSE CANCELLED
        /\ ret'.phase = phase']_vars

C4_Witness ==
    /\ IsTick /\ ret.action = "rollback"
    /\ k_max = 2 /\ Len(obs) = 1 /\ obs[1] > theta_cancel
    /\ phase = HIJACK_DETECTED

\* C5: a tick taken while Pending with rate > theta_cancel leaves the
\* caller's vector as it was passed in, returns no new_integrals, and appends
\* to the per-cycle log and to the history one record carrying the turn, the
\* rate, the threshold, the hijack flag and integrals_unchanged = TRUE.
C5_RollbackLeavesIntegrals ==
    [][(call'.name = "tick" /\ phase = PENDING
            /\ call'.d_dot > theta_cancel) =>
        LET e == decay_log'[Len(decay_log')] IN
        /\ caller_vec' = caller_vec
        /\ caller_vec' = call'.integrals
        /\ ret'.action = "rollback"
        /\ "new_integrals" \notin DOMAIN ret'
        /\ confirmed_out' = confirmed_out
        /\ Len(decay_log') = Len(decay_log) + 1
        /\ history' = Append(history, e)
        /\ DOMAIN e = {"event", "turn", "d_dot", "theta_cancel",
                       "hijack_suspected", "integrals_unchanged"}
        /\ e.turn = Len(obs')
        /\ e.d_dot = call'.d_dot
        /\ e.theta_cancel = theta_cancel
        /\ e.hijack_suspected = (phase' = HIJACK_DETECTED)
        /\ e.integrals_unchanged = TRUE]_vars

C5_Witness ==
    /\ IsTick /\ ret.action = "rollback"
    /\ phase = CANCELLED /\ k_max = 3 /\ Len(obs) = 2
    /\ caller_vec = BaseVec /\ call.integrals = BaseVec
    /\ decay_log[Len(decay_log)].integrals_unchanged
    /\ decay_log[Len(decay_log)].turn = 2

\* C6 (as claimed): every step that enters Pending starts in Idle, and from
\* Confirmed, Cancelled or HijackSuspected only reset changes the phase.
C6_Original ==
    [][/\ (phase # PENDING /\ phase' = PENDING) => phase = NONE
       /\ (phase \in {CONFIRMED, CANCELLED, HIJACK_DETECTED}
                /\ phase' # phase) => call'.name = "reset"]_vars

\* C7: attempt_miracle called while Pending returns already_pending for any
\* arguments and leaves phase, turns_elapsed, the baseline, the per-cycle log
\* and the history unchanged.
C7_AlreadyPending ==
    [][(call'.name = "attempt_miracle" /\ phase = PENDING) =>
        /\ ret'.result = "already_pending"
        /\ UNCHANGED <<phase, turns_elapsed, initial_integrals,
                       decay_log, history>>]_vars

C7_Witness ==
    /\ IsAttempt /\ ret.result = "already_pending"
    /\ call.g_value > call.g_min /\ call.v_consistency > 70
    /\ call.integrals # initial_integrals
    /\ phase = PENDING /\ turns_elapsed = 1 /\ Len(decay_log) = 1

\* C8: from Idle, attempt_miracle is admitted exactly when g_value > g_min
\* and v_consistency > 0.7 (both strict); on admission the phase is Pending,
\* turns_elapsed is 0, the baseline is the supplied vector and the per-cycle
\* log is empty.
C8_Admission ==
    [][(call'.name = "attempt_miracle" /\ phase = NONE) =>
        /\ ret'.result \in {"pending", "rejected"}
        /\ (ret'.result = "pending") <=>
                (call'.g_value > call'.g_min /\ call'.v_consistency > 70)
        /\ (ret'.result = "pending") =>
                /\ phase' = PENDING
                /\ turns_elapsed' = 0
                /\ initial_integrals' = call'.integrals
                /\ decay_log' = <<>>]_vars

C8_Witness ==
    /\ IsAttempt /\ ret.result = "pending"
    /\ admitted.from = NONE /\ Len(history) = 1
    /\ phase = PENDING /\ turns_elapsed = 0 /\ decay_log = <<>>
    /\ initial_integrals = BaseVec

\* C9: attempt_miracle called in Idle with the admission condition not met
\* returns rejected with the compared values and leaves phase (Idle),
\* turns_elapsed, the baseline, the per-cycle log and the history unchanged.
C9_Rejected ==
    [][(call'.name = "attempt_miracle" /\ phase = NONE
            /\ ~(call'.g_value > call'.g_min /\ call'.v_consistency > 70)) =>
        /\ ret' = [result |-> "rejected", g_value |-> call'.g_value,
                   g_min |-> call'.g_min,
                   v_consistency |-> call'.v_consistency]
        /\ phase' = NONE
        /\ UNCHANGED <<turns_elapsed, initial_integrals,
                       decay_log, history>>]_vars

C9_Witness ==
    /\ IsAttempt /\ ret.result = "rejected"
    /\ call.g_value = call.g_min /\ call.v_consistency > 70
    /\ phase = NONE /\ ~admitted.active /\ Len(history) = 1

\* C10: tick called in a phase other than Pending returns that phase with
\* action none and leaves phase, turns_elapsed, the baseline, the per-cycle
\* log and the history unchanged.
C10_TickNoOp ==
    [][(call'.name = "tick" /\ phase # PENDING) =>
        /\ ret' = [phase |-> phase, action |-> "none"]
        /\ UNCHANGED <<phase, turns_elapsed, initial_integrals,
                       decay_log, history>>]_vars

C10_Witness ==
    /\ IsTick /\ ret.action = "none"
    /\ phase = CANCELLED /\ call.d_dot <= theta_cancel
    /\ Len(obs) = turns_elapsed + 1 /\ turns_elapsed < k_max

\* C12: while the phase stays Pending the stored baseline does not change,
\* whatever is called (tick, a refused attempt) and whatever the caller writes
\* into the array it passed in; it stays the vector supplied at admission.
C12_BaselineImmutable ==
    [][(phase = PENDING /\ phase' = PENDING) =>
        /\ initial_integrals' = initial_integrals
        /\ initial_integrals' = admitted.vec]_vars

C12_Witness ==
    /\ call.name = "caller_write" /\ phase = PENDING
    /\ turns_elapsed >= 1
    /\ initial_integrals = BaseVec /\ caller_vec # BaseVec

IsPrefix(s1, s2) ==
    Len(s1) <= Len(s2) /\ \A i \in 1..Len(s1) : s1[i] = s2[i]

C14_ResetRecovers ==
    [][/\ call'.name = "reset" =>
            /\ phase' = NONE
            /\ turns_elapsed' = 0
            /\ initial_integrals' = <<0, 0, 0, 0>>
            /\ decay_log' = <<>>
       /\ (call.name = "reset" /\ call'.name = "attempt_miracle"
                /\ call'.g_value > call'.g_min
                /\ call'.v_consistency > 70) =>
            /\ ret'.result = "pending"
            /\ phase' = PENDING]_vars

C14_Witness ==
    /\ IsAttempt /\ ret.result = "pending" /\ phase = PENDING
    /\ admitted.from = NONE
    /\ Len(history) = 1 /\ history[1].event = "cancelled"
    /\ history[1].hijack_suspected

\* C15: a tick taken while Pending with rate <= theta_cancel that brings the
\* number of ticks of the cycle below k_max keeps the phase Pending, appends
\* exactly one "tick" record to the per-cycle log (nothing to the history) and
\* returns monitoring with turns_remaining = k_max - turns_elapsed >= 1.
C15_Monitoring ==
    [][(call'.name = "tick" /\ phase = PENDING
            /\ call'.d_dot <= theta_cancel /\ Len(obs') < k_max) =>
        LET e == decay_log'[Len(decay_log')] IN
        /\ phase' = PENDING
        /\ turns_elapsed' = Len(obs')
        /\ Len(decay_log') = Len(decay_log) + 1
        /\ IsPrefix(decay_log, decay_log')
        /\ e.event = "tick" /\ e.turn = turns_elapsed'
        /\ e.d_dot = call'.d_dot
        /\ history' = history
        /\ ret'.phase = "pending" /\ ret'.action = "monitoring"
        /\ ret'.turns_remaining = k_max - turns_elapsed'
        /\ ret'.turns_remaining >= 1]_vars

C15_Witness ==
    /\ IsTick /\ ret.action = "monitoring" /\ ret.turns_remaining = 1
    /\ k_max = 3 /\ Len(decay_log) = 2 /\ phase = PENDING
    /\ call.d_dot = theta_cancel

\* C11: in every state reachable by attempt_miracle, tick and reset calls,
\* 0 <= turns_elapsed <= k_max.
C11_TurnsBounded ==
    0 <= turns_elapsed /\ turns_elapsed <= k_max

C11_Witness ==
    /\ k_max = 3 /\ turns_elapsed = k_max /\ phase = CANCELLED
    /\ Len(obs) = k_max + 1 /\ IsTick /\ ret.action = "none"

\* C16: no object exists with a configuration out of range (k_max >= 1,
\* alpha > 0, 0 < tau < 1, 0 <= g0 < 1, theta_cancel > 0, 0 <= rho <= 1,
\* kappa >= 0), and a call of attempt_miracle or tick with a vector whose
\* dimension is not 4 is refused and changes neither the decay state nor a_anom.
C16_Original ==
    /\ [](/\ k_max >= 1 /\ alpha > 0
          /\ 0 < tau.num /\ tau.num < tau.den
          /\ 0 <= g0.num /\ g0.num < g0.den
          /\ theta_cancel > 0 /\ 0 <= rho /\ rho <= 100 /\ kappa >= 0)
    /\ [][(call'.name \in {"attempt_miracle", "tick"}
                /\ Len(call'.integrals) # VecDim) =>
            /\ "error" \in DOMAIN ret'
            /\ UNCHANGED <<state, history, a_anom>>]_vars

\* exact comparison of the fractions a/b and c/d (a, c >= 0; b, d > 0) by
\* their continued fractions, so that no product is formed
RECURSIVE RatLess(_, _, _, _)
RatLess(a, b, c, d) ==
    IF a \div b # c \div d THEN a \div b < c \div d
    ELSE IF c % d = 0 THEN FALSE
    ELSE IF a % b = 0 THEN TRUE
    ELSE RatLess(d, c % d, b, a % b)
FracLess(x, y) == RatLess(x.num, x.den, y.num, y.den)
FracEq(x, y) == ~FracLess(x, y) /\ ~FracLess(y, x)

RECURSIVE Pow(_, _)
Pow(b, n) == IF n = 0 THEN 1 ELSE b * Pow(b, n - 1)

\* C17: in every state reachable by update calls the threshold
\* g0 + (1-g0)*a_anom/(a_anom+alpha) is at least g0 and strictly below 1, and
\* so is every value calculate_g_min returns; of two values returned in the
\* same run the one computed for the larger a_anom is strictly larger.
C17_ThresholdRange ==
    /\ [](LET g == GMin(a_anom, g0, alpha) IN
            /\ g.den > 0
            /\ ~FracLess(g, g0)
            /\ g.num < g.den
            /\ (a_anom.num > 0 /\ g0.num < g0.den) => FracLess(g0, g))
    /\ [][(call'.name = "calculate_g_min" /\ g_out # <<>>) =>
            /\ ret'.value = g_out'.g
            /\ g_out'.g.num < g_out'.g.den
            /\ FracLess(g_out.a, g_out'.a) => FracLess(g_out.g, g_out'.g)
            /\ FracLess(g_out'.a, g_out.a) => FracLess(g_out'.g, g_out.g)
            /\ FracEq(g_out.a, g_out'.a) => FracEq(g_out.g, g_out'.g)]_vars

C17_Witness ==
    /\ call.name = "calculate_g_min" /\ Len(dists) = 5
    /\ g_out.a = a_anom /\ a_anom.num > 0
    /\ g0.num = 2 /\ alpha = 10
    /\ FracLess([num |-> 2, den |-> 3], g_out.g)
    /\ g_out.g.num < g_out.g.den

\* the sum of tau * (1-tau)^(n-i) * d_i over the first n distances, times
\* tau.den^n
RECURSIVE LeakySum(_, _, _)
LeakySum(ds, t, n) ==
    IF n = 0 THEN 0
    ELSE (t.den - t.num) * LeakySum(ds, t, n - 1)
            + t.num * ds[n] * Pow(t.den, n - 1)

\* C18: update_anomaly takes d with d >= 0 and d^2 the sum of the squared
\* differences, sets a_anom to (1-tau)*a_anom + tau*d and returns it; whenever
\* the last N distances were 0, a_anom is (1-tau)^N times its value N updates
\* earlier; and 5 updates with distance 1.4 from 0 with tau = 0.2 give
\* 1.4 * (1 - 0.8^5) = 1.4 * 2101 / 3125.
C18_LeakyUpdate ==
    /\ [][call'.name = "update_anomaly" =>
            LET d == dists'[Len(dists')]
                diff == [i \in 1..4 |->
                            call'.d_obs[i] - call'.d_hat_history[i]]
            IN /\ d >= 0
               /\ d * d = diff[1] * diff[1] + diff[2] * diff[2]
                            + diff[3] * diff[3] + diff[4] * diff[4]
               /\ FracEq(a_anom',
                    [num |-> (tau.den - tau.num) * a_anom.num
                                + tau.num * d * a_anom.den,
                     den |-> tau.den * a_anom.den])
               /\ ret'.value = a_anom']_vars
    /\ [](\A k \in 0..Len(dists) :
            (\A i \in (k + 1)..Len(dists) : dists[i] = 0) =>
                FracEq(a_anom,
                    [num |-> LeakySum(dists, tau, k)
                                * Pow(tau.den - tau.num, Len(dists) - k),
                     den |-> Pow(tau.den, Len(dists))]))
    /\ []((tau = [num |-> 1, den |-> 5] /\ dists = <<14, 14, 14, 14, 14>>) =>
            FracEq(a_anom, [num |-> 14 * 2101, den |-> 3125]))

C18_Witness ==
    /\ call.name = "update_anomaly"
    /\ tau = [num |-> 1, den |-> 5] /\ dists = <<14, 14, 14, 14, 14>>
    /\ call.d_obs = <<1, 1, 1, 1>> /\ call.d_hat_history = <<8, 8, 8, 8>>
    /\ FracEq(a_anom, [num |-> 29414, den |-> 3125])

\* C19: a_anom is never negative, and a step changes it only if the step is
\* update_anomaly: calculate_g_min, attempt_miracle, tick (the confirming one
\* included) and reset leave it as it was.
C19_AnomalyOwnedByUpdate ==
    /\ [](a_anom.num >= 0 /\ a_anom.den > 0)
    /\ [][/\ ~FracEq(a_anom, a_anom') => call'.name = "update_anomaly"
          /\ call'.name \in {"calculate_g_min", "attempt_miracle",
                             "tick", "reset"} => a_anom' = a_anom
          /\ (call'.name = "tick" /\ phase' = CONFIRMED) =>
                a_anom' = a_anom]_vars

C19_Witness ==
    /\ call.name = "reset" /\ a_anom.num > 0 /\ Len(dists) = 1
    /\ Len(history) = 1 /\ history[1].event = "confirmed"
    /\ g_out # <<>>

NormOf(v) == CHOOSE r \in 0..1000 : r * r = SumSq(v)
RouteOf(v) ==
    IF NormOf(v) > ThetaRaw THEN "FastPathAnomaly"
    ELSE IF NormOf(v) > ThetaAnom THEN "SlowPathAnomaly"
    ELSE "Normal"

\* C20 (as claimed): the detector returns one of three distinct outcomes, so
\* two consecutive calls whose distances fall in different classes (fast,
\* slow, normal) return different values.
C20_Original ==
    [][(call.name = "dual_route_anomaly_detector"
            /\ call'.name = "dual_route_anomaly_detector"
            /\ RouteOf(call.residual_vector) # RouteOf(call'.residual_vector))
        => ret'.value # ret.value]_vars

\* C20 (amended): the detector returns a boolean and logs the route.
\* d > theta_fast returns True and logs one CRITICAL fast-path record (also
\* when d > theta_slow); theta_slow < d <= theta_fast returns True and logs
\* one WARNING slow-path record; d <= theta_slow returns False and logs
\* nothing; theta_fast > theta_slow.
C20_DualRoute ==
    /\ [](ThetaRaw > ThetaAnom)
    /\ [][call'.name = "dual_route_anomaly_detector" =>
            LET d == NormOf(call'.residual_vector) IN
            /\ d > ThetaRaw =>
                /\ ret'.value = TRUE
                /\ log_records' = Append(log_records,
                        [level |-> "CRITICAL",
                         path |-> "Fast Path Anomaly Detected"])
            /\ (ThetaAnom < d /\ d <= ThetaRaw) =>
                /\ ret'.value = TRUE
                /\ log_records' = Append(log_records,
                        [level |-> "WARNING",
                         path |-> "Slow Path Anomaly Detected"])
            /\ d <= ThetaAnom =>
                /\ ret'.value = FALSE
                /\ log_records' = log_records]_vars

C20_Witness ==
    /\ call.name = "dual_route_anomaly_detector"
    /\ call.residual_vector = <<215, 215, 215, 215>>
    /\ ret.value = TRUE
    /\ Len(log_records) = 3
    /\ log_records[2].level = "WARNING"
    /\ log_records[3].level = "CRITICAL"

\* C21: attempt_miracle and tick leave the caller's vector with the contents
\* it had when passed in, in every phase and for every outcome; on the
\* confirming tick the reduced vector is in the result only (new_integrals,
\* the baseline times 1 - rho) and the caller's vector is still as passed in.
C21_CallerVectorUntouched ==
    [][call'.name \in {"attempt_miracle", "tick"} =>
        /\ call'.integrals = caller_vec
        /\ caller_vec' = caller_vec
        /\ (call'.name = "tick" /\ phase' = CONFIRMED /\ phase = PENDING) =>
            /\ ret'.new_integrals = Scaled(initial_integrals, rho)
            /\ caller_vec' = call'.integrals]_vars

C21_Witness ==
    /\ IsTick /\ ret.action = "apply_reset" /\ rho = 30
    /\ caller_vec = BaseVec /\ call.integrals = BaseVec
    /\ initial_integrals = BaseVec
    /\ ret.new_integrals = <<12600, 18200, 21700, 13300>>

\* C22: a tick taken while Pending that is the k_max-th tick of its cycle and
\* has rate > theta_cancel sets the phase to Cancelled, not Confirmed and not
\* HijackSuspected, returns rollback without new_integrals and appends a
\* "cancelled" record to the history, also when every earlier tick of the
\* cycle was stable; the cycle has then confirmed nothing.
C22_RecurrenceBeforeCompletion ==
    [][(call'.name = "tick" /\ phase = PENDING /\ Len(obs') = k_max
            /\ call'.d_dot > theta_cancel) =>
        /\ turns_elapsed' = k_max
        /\ phase' = CANCELLED
        /\ ret'.action = "rollback" /\ ret'.phase = CANCELLED
        /\ "new_integrals" \notin DOMAIN ret'
        /\ confirmed_out' = <<>>
        /\ history' = Append(history, decay_log'[Len(decay_log')])
        /\ history'[Len(history')].event = "cancelled"]_vars

C22_Witness ==
    /\ IsTick /\ ret.action = "rollback" /\ phase = CANCELLED
    /\ k_max = 3 /\ Len(obs) = 3 /\ turns_elapsed = 3
    /\ obs[1] <= theta_cancel /\ obs[2] <= theta_cancel
    /\ obs[3] > theta_cancel /\ confirmed_out = <<>>

\* C23: a Pending state has turns_elapsed < k_max, so k_max - turns_elapsed
\* is at least 1; every tick taken while Pending adds one to turns_elapsed and
\* leaves the phase Pending only if its rate is <= theta_cancel and the count
\* is still below k_max; so after k_max - turns_elapsed ticks at the latest the
\* phase is Confirmed, Cancelled or HijackSuspected. Pending is left only by a
\* tick or by reset, and before the count reaches k_max only by a tick with
\* rate > theta_cancel or by reset; attempt_miracle leaves phase and count
\* as they are. A cycle that has seen k_max ticks is not Pending.
C23_PendingEndsWithinWindow ==
    /\ [](phase = PENDING =>
            /\ turns_elapsed < k_max
            /\ Len(obs) = turns_elapsed)
    /\ []((admitted.active /\ Len(obs) >= k_max) =>
            phase \in {CONFIRMED, CANCELLED, HIJACK_DETECTED})
    /\ [][/\ (call'.name = "tick" /\ phase = PENDING) =>
                /\ turns_elapsed' = turns_elapsed + 1
                /\ phase' \in {PENDING, CONFIRMED, CANCELLED, HIJACK_DETECTED}
                /\ phase' = PENDING <=>
                        (call'.d_dot <= theta_cancel /\ turns_elapsed' < k_max)
                /\ phase' = CONFIRMED <=>
                        (call'.d_dot <= theta_cancel /\ turns_elapsed' = k_max)
          /\ (phase = PENDING /\ phase' # PENDING) =>
                call'.name \in {"tick", "reset"}
          /\ (phase = PENDING /\ phase' # PENDING /\ call'.name = "tick"
                    /\ turns_elapsed' < k_max) =>
                call'.d_dot > theta_cancel
          /\ (phase = PENDING /\ call'.name \notin {"tick", "reset"}) =>
                /\ phase' = PENDING
                /\ turns_elapsed' = turns_elapsed]_vars

C23_Witness ==
    /\ IsTick /\ phase = CONFIRMED /\ ret.action = "apply_reset"
    /\ k_max = 3 /\ turns_elapsed = 3 /\ Len(obs) = 3
    /\ Len(decay_log) = 3 /\ caller_vec # initial_integrals

\* phase and turn count of a cycle after the first n of the given rates, as
\* a function of k_max, theta_cancel and the rates alone
RECURSIVE CycleAfter(_, _, _, _)
CycleAfter(rates, n, k, theta) ==
    IF n = 0 THEN [phase |-> PENDING, turns |-> 0]
    ELSE LET prev == CycleAfter(rates, n - 1, k, theta)
             t == prev.turns + 1
         IN IF prev.phase # PENDING THEN prev
            ELSE IF rates[n] > theta
            THEN [phase |-> IF 2 * t <= k THEN HIJACK_DETECTED ELSE CANCELLED,
                  turns |-> t]
            ELSE [phase |-> IF t >= k THEN CONFIRMED ELSE PENDING, turns |-> t]

\* C24: phase, turns_elapsed, the stored baseline and the new_integrals a
\* cycle returns are functions of the configuration, the admitted baseline and
\* the sequence of rates of its ticks; the vector passed to tick, which the
\* caller may rewrite before every tick, is not among their arguments. Two
\* runs that agree on configuration, baseline and rates therefore agree on
\* all of them, whatever vectors their ticks are given.
C24_OutcomeIgnoresCurrentIntegrals ==
    /\ [](admitted.active =>
            LET c == CycleAfter(obs, Len(obs), k_max, theta_cancel) IN
            /\ phase = c.phase
            /\ turns_elapsed = c.turns
            /\ initial_integrals = admitted.vec
            /\ confirmed_out = IF c.phase = CONFIRMED
                               THEN <<Scaled(admitted.vec, rho)>> ELSE <<>>)
    /\ [][(call'.name = "tick" /\ admitted.active) =>
            LET c == CycleAfter(obs', Len(obs'), k_max, theta_cancel) IN
            /\ ret'.phase = c.phase
            /\ ("new_integrals" \in DOMAIN ret') <=>
                    (c.phase = CONFIRMED /\ phase = PENDING)
            /\ ("new_integrals" \in DOMAIN ret') =>
                    ret'.new_integrals = Scaled(admitted.vec, rho)]_vars

C24_Witness ==
    /\ IsTick /\ ret.action = "apply_reset" /\ k_max = 2 /\ rho = 30
    /\ admitted.vec = BaseVec /\ call.integrals = <<0, 0, 0, 0>>
    /\ obs = <<5, -1>>
    /\ ret.new_integrals = <<12600, 18200, 21700, 13300>>

\* C25: in the facade, attempt_miracle compares g_value with the threshold
\* computed from the a_anom current at that call, and from a phase other than
\* Pending admits exactly when g_value exceeds it and v_consistency > 0.7;
\* update_anomaly leaves phase, turns_elapsed, the baseline, the per-cycle log
\* and the history as they are; and phase and turns_elapsed of an admitted
\* cycle follow from k_max, theta_cancel and the rates of its ticks alone,
\* whatever updates are made between the ticks.
C25_ThresholdReadAtAttempt ==
    /\ [](admitted.active =>
            LET c == CycleAfter(obs, Len(obs), k_max, theta_cancel) IN
            /\ phase = c.phase
            /\ turns_elapsed = c.turns
            /\ initial_integrals = admitted.vec)
    /\ [][/\ call'.name = "attempt_miracle" =>
                LET g == GMin(a_anom, g0, alpha) IN
                /\ call'.g_min = (100 * g.num) \div g.den
                /\ phase # PENDING =>
                    ((ret'.result = "pending") <=>
                        /\ FracLess(g, [num |-> call'.g_value, den |-> 100])
                        /\ call'.v_consistency > 70)
          /\ call'.name = "update_anomaly" =>
                UNCHANGED <<phase, turns_elapsed, initial_integrals,
                            decay_log, history, admitted>>]_vars

C25_Witness ==
    /\ call.name = "update_anomaly" /\ Len(dists) = 2
    /\ phase = PENDING /\ turns_elapsed = 1 /\ admitted.active
    /\ a_anom.num > 0
    /\ FracLess([num |-> 45, den |-> 100], GMin(a_anom, g0, alpha))

\* C26: a step appends to the history exactly when it is a tick that ends a
\* Pending cycle, and then it appends one record: "confirmed" if the phase
\* becomes Confirmed, "cancelled" if it becomes Cancelled or HijackSuspected.
\* Every other step (a monitoring tick, a tick outside Pending, an admitted,
\* rejected or already-pending attempt_miracle, reset) leaves the history as
\* it is. A monitoring tick appends its "tick" record to the per-cycle log
\* only, and the per-cycle log is empty after reset and after an admission.
C26_HistoryOnePerCycle ==
    [][/\ (call'.name = "tick" /\ phase = PENDING /\ phase' # PENDING) =>
            /\ Len(history') = Len(history) + 1
            /\ IsPrefix(history, history')
            /\ history'[Len(history')].event =
                    IF phase' = CONFIRMED THEN "confirmed" ELSE "cancelled"
       /\ ~(call'.name = "tick" /\ phase = PENDING /\ phase' # PENDING) =>
            history' = history
       /\ (call'.name = "tick" /\ phase = PENDING /\ phase' = PENDING) =>
            /\ Len(decay_log') = Len(decay_log) + 1
            /\ IsPrefix(decay_log, decay_log')
            /\ decay_log'[Len(decay_log')].event = "tick"
       /\ call'.name = "reset" => decay_log' = <<>>
       /\ (call'.name = "attempt_miracle" /\ ret'.result = "pending") =>
            decay_log' = <<>>
       /\ (call'.name = "attempt_miracle" /\ ret'.result # "pending") =>
            decay_log' = decay_log]_vars

C26_Witness ==
    /\ IsTick /\ phase = CONFIRMED /\ k_max = 3
    /\ Len(decay_log) = 3 /\ decay_log[1].event = "tick"
    /\ decay_log[2].event = "tick"
    /\ Len(history) = 1 /\ history[1].event = "confirmed"
    /\ history[1].integrals_after = Scaled(admitted.vec, rho)

\* C27 (as claimed): for all inputs the gate returns selected_delta_p <=
\* delta_p_max and selected_delta_p <= proposed_delta_p; selected_delta_p is 0
\* exactly in the cases BLOCKED, ANOMALY_HOLD and NO_INTERVENTION; a cap below
\* 0.05 gives BLOCKED whatever a_anom is, and otherwise a_anom > theta_anom
\* gives ANOMALY_HOLD whatever is proposed.
C27_Original ==
    [][call'.name = "reignition_decision" =>
        /\ ret'.selected_delta_p <= ret'.delta_p_max
        /\ 10 * ret'.selected_delta_p <= call'.proposed_delta_p
        /\ (ret'.selected_delta_p = 0) <=>
                (ret'.case \in {"BLOCKED", "ANOMALY_HOLD", "NO_INTERVENTION"})
        /\ ret'.delta_p_max < 500 => ret'.case = "BLOCKED"
        /\ (ret'.delta_p_max >= 500 /\ call'.a_anom > 200) =>
                ret'.case = "ANOMALY_HOLD"]_vars

====
